---- MODULE Spec2Model ----
(***************************************************************************)
(* Bulk migration orchestrator of entsporter (bulk-migrate-engines.js):    *)
(* state file, engine listing, work-set computation, batch execution with  *)
(* bounded concurrency, dry run and exit status.                           *)
(***************************************************************************)
EXTENDS Integers, Sequences, FiniteSets, TLC

(* ------------------------------ bounds -------------------------------- *)
MaxRuns == 2          \* invocations of the CLI in one behaviour
MaxConc == 2          \* largest --concurrency value tried
MaxPages == 3         \* pages the listing endpoint can report
MaxBatches == 3       \* batches and saves of one run are counted up to here

(* ------------------------- environment inputs ------------------------- *)
\* The source and target clusters are external services: a listing answers
\* one of Listings (or throws), the target listing answers any subset of
\* TargetNames, and each unit settles with any outcome.  The name prefix and
\* the concurrency are chosen once per behaviour; the other flags and the
\* filter are chosen at every invocation.
SourceEngines == <<"pa", "q">>
Listings == {<< >>, SourceEngines}
Filters == {"", "p", "z"}
Prefixes == {"", "i-"}
TargetNames == {"pa", "i-q"}

ExportError == "export failed"
ImportError == "import failed"
SkippedError == "SKIPPED"

(* ------------------------------ helpers ------------------------------- *)
Range(s) == {s[k] : k \in 1..Len(s)}

Min(a, b) == IF a < b THEN a ELSE b

\* String.prototype.includes
Includes(name, sub) ==
    \E k \in 1..(Len(name) - Len(sub) + 1) : SubSeq(name, k, k + Len(sub) - 1) = sub

\* String.prototype.startsWith
StartsWith(name, p) == Len(name) >= Len(p) /\ SubSeq(name, 1, Len(p)) = p

DstName(o, e) == o.targetPrefix \o e

FailedNames(st) == {st.failed[k].engine : k \in 1..Len(st.failed)}

(* ----------------------------- state store ---------------------------- *)
FreshState(now) == [completed |-> << >>, failed |-> << >>, skipped |-> << >>, startTime |-> now]

\* text that JSON.parse rejects (an empty or half-written file)
Garbage == [garbage |-> TRUE]

\* variant: a loaded state gets the time of the load
loadState_NewStartTime(f, now) ==
    IF f = << >> \/ f[1] = Garbage THEN FreshState(now) ELSE [f[1] EXCEPT !.startTime = now]

\* the state file is a sequence holding no record (no file) or one record;
\* a missing or unparseable file yields a fresh state, any parsed value is
\* returned as it is
loadState(f, now) == IF f = << >> \/ f[1] = Garbage THEN FreshState(now) ELSE f[1]

\* a parsed value with the two lists processInParallel dereferences
WellFormed(st) == {"completed", "failed"} \subseteq DOMAIN st

\* new Set(state.completed), empty when the field is undefined
CompletedSet(st) == IF "completed" \in DOMAIN st THEN Range(st.completed) ELSE {}

saveState(st) == << st >>

(* -------------------------------- state ------------------------------- *)
VARIABLES
    file,        \* content of the state file
    runs,        \* invocations started so far (also the clock of Date.now())
    pc,          \* position of the running process
    opts,        \* parsed command line of the current run
    filtered,    \* main: engines matching the filter
    existingOnTarget, \* main: result of checkTargetEngines
    state,       \* processInParallel: in-memory MigrationState
    remaining,   \* processInParallel: work list
    i,           \* processInParallel: offset of the current batch in remaining
    batch,       \* processInParallel: engines of the batch in flight
    batchResults,\* processInParallel: outcome of each unit of the batch
    exitCode,    \* exit status of the process, -1 while it runs
    hist,        \* calls observed in the current run
    prev,        \* summary of the previous run
    unit,        \* processFn: one unit (export, import, cleanup) step by step
    lister,      \* listAllEngines: page counter, accumulator and server
    imp          \* import module: createEngine, deleteEngine or importSchema in steps

vars == << file, runs, pc, opts, filtered, existingOnTarget, state,
           remaining, i, batch, batchResults, exitCode, hist, prev, unit, lister, imp >>

Pending == [status |-> "pending", engine |-> "", error |-> ""]

NoOpts == [filter |-> "", targetPrefix |-> "", concurrency |-> 1, dryRun |-> FALSE,
           force |-> FALSE, resume |-> FALSE, retryFailedOnly |-> FALSE,
           skipExisting |-> FALSE]

NoHist == [listCalls |-> 0, listFailed |-> "none", stateReads |-> 0, stateWrites |-> 0,
           saveFailed |-> FALSE, batches |-> 0,
           dispatched |-> << >>, inFlight |-> {}, outcomes |-> << >>,
           savedOutcomes |-> << >>, exported |-> {}, imported |-> {},
           fileAtStart |-> << >>, loaded |-> << >>,
           halt |-> "none", classes |-> << >>, willMigrate |-> 0, willSkip |-> 0,
           created |-> 0, processed |-> 0,
           report |-> [total |-> 0, succeeded |-> 0, failed |-> 0]]

NoPrev == [ok |-> FALSE, interrupted |-> FALSE, opts |-> NoOpts, filtered |-> << >>,
           pending |-> {}]

\* no unit is being followed step by step
NoUnit == [pc |-> "none"]

\* no listing is being followed page by page
NoLister == [pc |-> "none"]

\* no function of the import module is being followed
NoImp == [pc |-> "none"]

\* before the first invocation: nothing has run
\* the process before its first invocation, --concurrency parsed to one of cs
ProcessStarts(cs) ==
    /\ runs = 0
    /\ pc = "idle"
    /\ \E p \in Prefixes, c \in cs :
         opts = [NoOpts EXCEPT !.targetPrefix = p, !.concurrency = c]
    /\ filtered = << >>
    /\ existingOnTarget = {}
    /\ state = FreshState(0)
    /\ remaining = << >>
    /\ i = 0
    /\ batch = << >>
    /\ batchResults = << >>
    /\ exitCode = -1
    /\ hist = NoHist
    /\ prev = NoPrev

\* no state file exists before the first invocation
InitProcess == ProcessStarts(1..MaxConc)

Init == file = << >> /\ InitProcess /\ unit = NoUnit /\ lister = NoLister /\ imp = NoImp

(* --------------------------- pure operators --------------------------- *)
OptionSets == [filter : Filters, targetPrefix : Prefixes, concurrency : 1..MaxConc,
               dryRun : BOOLEAN, force : BOOLEAN, resume : BOOLEAN,
               retryFailedOnly : BOOLEAN, skipExisting : BOOLEAN]

\* variant: the flag combination is never rejected
ConfigError_NeverRejected(o) == FALSE

\* main: --retry-failed-only requires --resume
ConfigError(o) == o.retryFailedOnly /\ ~o.resume

\* variant: the dry-run flag is not looked at
AfterListing_IgnoresDryRun(o) == "load"

\* main: after the listings, the dry-run branch or processInParallel
AfterListing(o) == IF o.dryRun THEN "dryRun" ELSE "load"

\* main: substring filter on the listed engines
ApplyFilter(l, f) == IF f # "" THEN SelectSeq(l, LAMBDA e : Includes(e, f)) ELSE l

\* checkTargetEngines: names on the target that carry the prefix
checkTargetEngines(names, prefix) == {n \in names : prefix = "" \/ StartsWith(n, prefix)}

\* variant: the skip ignores --force
SkipGuard_IgnoresForce(o, exist, e) == o.skipExisting /\ DstName(o, e) \in exist

\* processFn: the unit throws SKIPPED before any export or import
SkipGuard(o, exist, e) == o.skipExisting /\ DstName(o, e) \in exist /\ ~o.force

\* variant: the target check comes before the retry-only check
Classify_ExistsBeforeNotFailed(o, st, exist, e) ==
    LET exists == DstName(o, e) \in exist
        alreadyCompleted == e \in CompletedSet(st)
        previouslyFailed == e \in FailedNames(st)
    IN  IF alreadyCompleted THEN "COMPLETED"
        ELSE IF o.skipExisting /\ exists /\ ~o.force THEN "SKIP - exists"
        ELSE IF o.retryFailedOnly /\ ~previouslyFailed THEN "SKIP - not failed"
        ELSE IF previouslyFailed THEN "RETRY"
        ELSE IF exists THEN "OVERWRITE"
        ELSE "FRESH"

\* variant: the dry run skips existing engines even under --force
Classify_IgnoresForce(o, st, exist, e) ==
    LET exists == DstName(o, e) \in exist
        alreadyCompleted == e \in CompletedSet(st)
        previouslyFailed == e \in FailedNames(st)
    IN  IF alreadyCompleted THEN "COMPLETED"
        ELSE IF o.retryFailedOnly /\ ~previouslyFailed THEN "SKIP - not failed"
        ELSE IF o.skipExisting /\ exists THEN "SKIP - exists"
        ELSE IF previouslyFailed THEN "RETRY"
        ELSE IF exists THEN "OVERWRITE"
        ELSE "FRESH"

\* main, dry-run branch: classification of one candidate
Classify(o, st, exist, e) ==
    LET exists == DstName(o, e) \in exist
        alreadyCompleted == e \in CompletedSet(st)
        previouslyFailed == e \in FailedNames(st)
    IN  IF alreadyCompleted THEN "COMPLETED"
        ELSE IF o.retryFailedOnly /\ ~previouslyFailed THEN "SKIP - not failed"
        ELSE IF o.skipExisting /\ exists /\ ~o.force THEN "SKIP - exists"
        ELSE IF previouslyFailed THEN "RETRY"
        ELSE IF exists THEN "OVERWRITE"
        ELSE "FRESH"

MigrateClasses == {"RETRY", "OVERWRITE", "FRESH"}

\* main, dry-run branch: status of every row
ClassifyAll(o, st, exist, engines) ==
    [k \in 1..Len(engines) |-> Classify(o, st, exist, engines[k])]

RECURSIVE DryRunCounts(_, _)
\* main, dry-run branch: willMigrate++ / willSkip++ over the rows
DryRunCounts(classes, acc) ==
    IF classes = << >> THEN acc
    ELSE DryRunCounts(Tail(classes),
            IF Head(classes) \in {"COMPLETED", "SKIP - not failed", "SKIP - exists"}
            THEN [acc EXCEPT !.willSkip = @ + 1]
            ELSE [acc EXCEPT !.willMigrate = @ + 1])

\* main, dry-run branch: the state the classification reads
DryRunState(o, f, now) ==
    IF o.resume THEN loadState(f, now) ELSE [completed |-> << >>, failed |-> << >>]

\* variant: the state file is loaded whether or not --resume is given
InitialState_AlwaysLoads(o, f, now) == loadState(f, now)

\* processInParallel: initial state of the run
InitialState(o, f, now) == IF o.resume THEN loadState(f, now) ELSE FreshState(now)

\* variant: a retry run keeps the engines that never failed
Remaining_RetryKeepsUnattempted(o, st, engines) ==
    SelectSeq(engines, LAMBDA e : e \notin CompletedSet(st))

\* variant: completed engines are not removed from the work list
Remaining_KeepsCompleted(o, st, engines) ==
    IF o.retryFailedOnly
    THEN SelectSeq(engines, LAMBDA e : e \in FailedNames(st))
    ELSE engines

\* processInParallel: the work list
Remaining(o, st, engines) ==
    LET notDone == SelectSeq(engines, LAMBDA e : e \notin CompletedSet(st))
    IN  IF o.retryFailedOnly
        THEN SelectSeq(notDone, LAMBDA e : e \in FailedNames(st))
        ELSE notDone

\* variant: the failed list is kept when retrying
PlannedState_KeepsFailed(o, st, rem) == st

\* processInParallel: a retry run with work to do clears the failed list
PlannedState(o, st, rem) ==
    IF o.retryFailedOnly /\ rem # << >> THEN [st EXCEPT !.failed = << >>] ELSE st

\* variant: the slice is one element too long
BatchOf_OneTooLong(rem, idx, c) == SubSeq(rem, idx + 1, Min(idx + c + 1, Len(rem)))

\* processInParallel: remaining.slice(i, i + concurrency)
BatchOf(rem, idx, c) == SubSeq(rem, idx + 1, Min(idx + c, Len(rem)))

\* variant: a failed unit is also pushed to completed
FoldOne_CompletesEveryUnit(st, r) ==
    IF r.status = "success"
    THEN [st EXCEPT !.completed = Append(@, r.engine)]
    ELSE [st EXCEPT !.completed = Append(@, r.engine),
                    !.failed = Append(@, [engine |-> r.engine, error |-> r.error])]

\* variant: the error message of a failed unit is not kept
FoldOne_DropsMessage(st, r) ==
    IF r.status = "success"
    THEN [st EXCEPT !.completed = Append(@, r.engine)]
    ELSE [st EXCEPT !.failed = Append(@, [engine |-> r.engine, error |-> "failed"])]

\* processInParallel: fold of one settled unit into the state
FoldOne(st, r) ==
    IF r.status = "success"
    THEN [st EXCEPT !.completed = Append(@, r.engine)]
    ELSE [st EXCEPT !.failed = Append(@, [engine |-> r.engine, error |-> r.error])]

RECURSIVE FoldResults_StopsAtFailure(_, _)
\* variant: the first failed unit ends the fold of the batch
FoldResults_StopsAtFailure(st, rs) ==
    IF rs = << >> THEN st
    ELSE IF Head(rs).status # "success" THEN FoldOne(st, Head(rs))
    ELSE FoldResults_StopsAtFailure(FoldOne(st, Head(rs)), Tail(rs))

RECURSIVE FoldResults(_, _)
\* processInParallel: for (const result of batchResults) ...
FoldResults(st, rs) ==
    IF rs = << >> THEN st ELSE FoldResults(FoldOne(st, Head(rs)), Tail(rs))

\* main: Total engines, Succeeded and Failed of the final summary
FinalReport(st, engines) ==
    [total |-> Len(engines), succeeded |-> Len(st.completed), failed |-> Len(st.failed)]

\* variant: the final exit status ignores the failed list
FinalExitCode_AlwaysZero(st) == 0

\* main: process.exit(1) when the final state has failures
FinalExitCode(st) == IF Len(st.failed) > 0 THEN 1 ELSE 0

InFlight == {k \in DOMAIN batchResults : batchResults[k].status = "pending"}

Failure(e, msg) == [status |-> "failed", engine |-> e, error |-> msg]
Success(e) == [status |-> "success", engine |-> e, error |-> ""]

(* ------------------------------- actions ------------------------------ *)
locals == << filtered, existingOnTarget, state, remaining, i, batch, batchResults >>

\* summary of the run that just ended, kept for the next invocation
RunSummary ==
    IF /\ hist.halt = "normal"
       /\ ~opts.dryRun
       /\ runs > 0
       /\ \A k \in 1..Len(hist.outcomes) : hist.outcomes[k].status = "success"
    THEN [NoPrev EXCEPT !.ok = TRUE, !.opts = opts, !.filtered = filtered]
    ELSE IF hist.halt = "interrupted" /\ hist.loaded # << >>
    THEN [NoPrev EXCEPT !.interrupted = TRUE, !.opts = opts, !.filtered = filtered,
                        !.pending = {remaining[k] : k \in (i + 1)..Len(remaining)}]
    ELSE NoPrev

\* a new invocation of the command line
StartRun ==
    /\ pc \in {"idle", "exited"}
    /\ runs < MaxRuns
    /\ \E o \in OptionSets :
         /\ o.targetPrefix = opts.targetPrefix
         /\ o.concurrency = 1
         /\ opts' = [o EXCEPT !.concurrency = opts.concurrency]
    /\ runs' = runs + 1
    /\ pc' = "validate"
    /\ exitCode' = -1
    /\ hist' = [NoHist EXCEPT !.fileAtStart = file, !.created = hist.created]
    /\ prev' = RunSummary
    /\ filtered' = << >>
    /\ existingOnTarget' = {}
    /\ state' = FreshState(0)
    /\ remaining' = << >>
    /\ i' = 0
    /\ batch' = << >>
    /\ batchResults' = << >>
    /\ UNCHANGED file
    /\ UNCHANGED << unit, lister, imp >>

\* main: validation of the flags, first statement of the action
Validate ==
    /\ pc = "validate"
    /\ IF ConfigError(opts)
       THEN /\ pc' = "exited"
            /\ exitCode' = 1
            /\ hist' = [hist EXCEPT !.halt = "config"]
       ELSE /\ pc' = "list"
            /\ UNCHANGED << exitCode, hist >>
    /\ UNCHANGED << file, runs, opts, prev, locals >>
    /\ UNCHANGED << unit, lister, imp >>

\* main: list the source engines and filter them
ListSource ==
    /\ pc = "list"
    /\ \E l \in Listings :
         LET f == ApplyFilter(l, opts.filter)
         IN  /\ filtered' = f
             /\ IF f = << >>
                THEN /\ pc' = "exited"
                     /\ exitCode' = 0
                     /\ hist' = [hist EXCEPT !.listCalls = @ + 1, !.halt = "normal"]
                ELSE /\ pc' = IF opts.skipExisting THEN "checkTarget"
                              ELSE AfterListing(opts)
                     /\ exitCode' = exitCode
                     /\ hist' = [hist EXCEPT !.listCalls = @ + 1]
    /\ UNCHANGED << file, runs, opts, prev, existingOnTarget, state,
                    remaining, i, batch, batchResults >>
    /\ UNCHANGED << unit, lister, imp >>

\* main().catch: the source listing throws
ListSourceError ==
    /\ pc = "list"
    /\ pc' = "exited"
    /\ exitCode' = 1
    /\ hist' = [hist EXCEPT !.listCalls = @ + 1, !.listFailed = "source",
                            !.halt = "fatal"]
    /\ UNCHANGED << file, runs, opts, prev, locals >>
    /\ UNCHANGED << unit, lister, imp >>

\* main: checkTargetEngines, the target listing answers
CheckTarget ==
    /\ pc = "checkTarget"
    /\ \E t \in SUBSET TargetNames :
         existingOnTarget' = checkTargetEngines(t, opts.targetPrefix)
    /\ pc' = AfterListing(opts)
    /\ hist' = [hist EXCEPT !.listCalls = @ + 1]
    /\ UNCHANGED << file, runs, opts, prev, filtered, state, remaining, i,
                    batch, batchResults, exitCode >>
    /\ UNCHANGED << unit, lister, imp >>

\* checkTargetEngines: the target listing throws, caught, the empty set returned
CheckTargetError ==
    /\ pc = "checkTarget"
    /\ existingOnTarget' = {}
    /\ pc' = AfterListing(opts)
    /\ hist' = [hist EXCEPT !.listCalls = @ + 1, !.listFailed = "target"]
    /\ UNCHANGED << file, runs, opts, prev, filtered, state, remaining, i,
                    batch, batchResults, exitCode >>
    /\ UNCHANGED << unit, lister, imp >>

\* main: the dry-run branch
DryRun ==
    /\ pc = "dryRun"
    /\ "failed" \in DOMAIN DryRunState(opts, file, runs)
    /\ LET st == DryRunState(opts, file, runs)
           classes == ClassifyAll(opts, st, existingOnTarget, filtered)
           counts == DryRunCounts(classes, [willMigrate |-> 0, willSkip |-> 0])
       IN  hist' = [hist EXCEPT !.classes = classes,
                                !.willMigrate = counts.willMigrate,
                                !.willSkip = counts.willSkip,
                                !.stateReads = IF opts.resume THEN @ + 1 ELSE @,
                                !.halt = "normal"]
    /\ pc' = "exited"
    /\ exitCode' = 0
    /\ UNCHANGED << file, runs, opts, prev, locals >>
    /\ UNCHANGED << unit, lister, imp >>

\* processInParallel: load the state and compute the work list
LoadAndPlan ==
    /\ pc = "load"
    /\ WellFormed(InitialState(opts, file, runs))
    /\ LET st == InitialState(opts, file, runs)
           rem == Remaining(opts, st, filtered)
       IN  /\ state' = PlannedState(opts, st, rem)
           /\ remaining' = rem
           /\ pc' = IF rem = << >> THEN "summary" ELSE "batch"
           /\ hist' = [hist EXCEPT !.stateReads = IF opts.resume THEN @ + 1 ELSE @,
                                   !.loaded = << st >>,
                                   !.processed = Len(st.completed)]
    /\ i' = 0
    /\ UNCHANGED << file, runs, opts, prev, filtered, existingOnTarget,
                    batch, batchResults, exitCode >>
    /\ UNCHANGED << unit, lister, imp >>

\* processInParallel: start every unit of the next batch
Dispatch ==
    /\ pc = "batch"
    /\ LET next == BatchOf(remaining, i, opts.concurrency)
       IN  /\ batch' = next
           /\ batchResults' = [k \in 1..Len(next) |-> Pending]
           /\ hist' = [hist EXCEPT !.dispatched = @ \o next,
                                   !.batches = Min(@ + 1, MaxBatches),
                                   !.inFlight = @ \cup {[b |-> i, e |-> next[k]] :
                                                           k \in 1..Len(next)}]
    /\ pc' = "await"
    /\ UNCHANGED << file, runs, opts, prev, filtered, existingOnTarget,
                    state, remaining, i, exitCode >>
    /\ UNCHANGED << unit, lister, imp >>

\* variant: a unit's outcome is written into the state when it settles
Settle_FoldsAtOnce(k, r) ==
    /\ batchResults' = [batchResults EXCEPT ![k] = r]
    /\ state' = FoldOne(state, r)
    /\ UNCHANGED << file, runs, pc, opts, prev, filtered, existingOnTarget,
                    remaining, i, batch, exitCode >>
    /\ UNCHANGED << unit, lister, imp >>

\* .then / .catch of one unit: its outcome is kept in its slot of the batch
Settle(k, r) ==
    /\ batchResults' = [batchResults EXCEPT ![k] = r]
    /\ UNCHANGED << file, runs, pc, opts, prev, filtered, existingOnTarget, state,
                    remaining, i, batch, exitCode >>
    /\ UNCHANGED << unit, lister, imp >>

\* processFn: skip-existing throws SKIPPED
UnitSkipped ==
    /\ pc = "await"
    /\ \E k \in InFlight :
         /\ SkipGuard(opts, existingOnTarget, batch[k])
         /\ Settle(k, Failure(batch[k], SkippedError))
         /\ hist' = [hist EXCEPT !.inFlight = @ \ {[b |-> i, e |-> batch[k]]}]

\* processFn: the export throws
UnitExportFails ==
    /\ pc = "await"
    /\ \E k \in InFlight :
         /\ ~SkipGuard(opts, existingOnTarget, batch[k])
         /\ Settle(k, Failure(batch[k], ExportError))
         /\ hist' = [hist EXCEPT !.exported = @ \cup {batch[k]},
                                 !.inFlight = @ \ {[b |-> i, e |-> batch[k]]}]

\* processFn: the import throws
UnitImportFails ==
    /\ pc = "await"
    /\ \E k \in InFlight :
         /\ ~SkipGuard(opts, existingOnTarget, batch[k])
         /\ Settle(k, Failure(batch[k], ImportError))
         /\ hist' = [hist EXCEPT !.exported = @ \cup {batch[k]},
                                 !.imported = @ \cup {batch[k]},
                                 !.inFlight = @ \ {[b |-> i, e |-> batch[k]]}]

\* processFn: export and import succeed
UnitSucceeds ==
    /\ pc = "await"
    /\ \E k \in InFlight :
         /\ ~SkipGuard(opts, existingOnTarget, batch[k])
         /\ Settle(k, Success(batch[k]))
         /\ hist' = [hist EXCEPT !.exported = @ \cup {batch[k]},
                                 !.imported = @ \cup {batch[k]},
                                 !.inFlight = @ \ {[b |-> i, e |-> batch[k]]}]

\* importAppSearchEngine (process.exit variant): the import ends the process
UnitExits ==
    /\ pc = "await"
    /\ \E k \in InFlight :
         /\ ~SkipGuard(opts, existingOnTarget, batch[k])
         /\ hist' = [hist EXCEPT !.exported = @ \cup {batch[k]},
                                 !.imported = @ \cup {batch[k]},
                                 !.halt = "unitExit"]
    /\ pc' = "exited"
    /\ exitCode' = 1
    /\ UNCHANGED << file, runs, opts, prev, locals >>
    /\ UNCHANGED << unit, lister, imp >>

\* processInParallel: Promise.all resolved, fold the outcomes in batch order
Fold ==
    /\ pc = "await"
    /\ InFlight = {}
    /\ state' = FoldResults(state, batchResults)
    /\ hist' = [hist EXCEPT !.outcomes = @ \o batchResults,
                            !.processed = @ + Len(batchResults)]
    /\ pc' = "save"
    /\ UNCHANGED << file, runs, opts, prev, filtered, existingOnTarget,
                    remaining, i, batch, batchResults, exitCode >>
    /\ UNCHANGED << unit, lister, imp >>

\* the run whose fresh state the saved state descends from: this run, unless
\* it resumed from a parsed state file
CreatedBy ==
    IF opts.resume /\ hist.fileAtStart \notin {<< >>, << Garbage >>}
    THEN hist.created ELSE runs

\* variant: the loop ends after a batch with a failure
Save_EndsAfterFailure ==
    /\ pc = "save"
    /\ file' = saveState(state)
    /\ hist' = [hist EXCEPT !.stateWrites = @ + 1, !.savedOutcomes = hist.outcomes,
                            !.created = CreatedBy]
    /\ i' = i + opts.concurrency
    /\ pc' = IF i + opts.concurrency < Len(remaining) /\ state.failed = << >>
             THEN "batch" ELSE "summary"
    /\ UNCHANGED << runs, opts, prev, filtered, existingOnTarget, state,
                    remaining, batch, batchResults, exitCode >>
    /\ UNCHANGED << unit, lister, imp >>

\* variant: the state is written only after the last batch
Save_OnlyAtEnd ==
    /\ pc = "save"
    /\ IF i + opts.concurrency < Len(remaining)
       THEN UNCHANGED << file, hist >>
       ELSE /\ file' = saveState(state)
            /\ hist' = [hist EXCEPT !.stateWrites = @ + 1,
                                    !.savedOutcomes = hist.outcomes,
                                    !.created = CreatedBy]
    /\ i' = i + opts.concurrency
    /\ pc' = IF i + opts.concurrency < Len(remaining) THEN "batch" ELSE "summary"
    /\ UNCHANGED << runs, opts, prev, filtered, existingOnTarget, state,
                    remaining, batch, batchResults, exitCode >>
    /\ UNCHANGED << unit, lister, imp >>

\* processInParallel: saveState after the batch, then the next iteration
Save ==
    /\ pc = "save"
    /\ file' = saveState(state)
    /\ hist' = [hist EXCEPT !.stateWrites = Min(@ + 1, MaxBatches), !.savedOutcomes = hist.outcomes,
                            !.created = CreatedBy]
    /\ i' = i + opts.concurrency
    /\ pc' = IF i + opts.concurrency < Len(remaining) THEN "batch" ELSE "summary"
    /\ UNCHANGED << runs, opts, prev, filtered, existingOnTarget, state,
                    remaining, batch, batchResults, exitCode >>
    /\ UNCHANGED << unit, lister, imp >>

\* variant: the write error is logged and the loop goes on
SaveError_Swallowed ==
    /\ pc = "save"
    /\ hist' = [hist EXCEPT !.saveFailed = TRUE]
    /\ i' = i + opts.concurrency
    /\ pc' = IF i + opts.concurrency < Len(remaining) THEN "batch" ELSE "summary"
    /\ UNCHANGED << file, runs, opts, prev, filtered, existingOnTarget, state,
                    remaining, batch, batchResults, exitCode >>
    /\ UNCHANGED << unit, lister, imp >>

\* main().catch: writeFile throws
SaveError ==
    /\ pc = "save"
    /\ pc' = "exited"
    /\ exitCode' = 1
    /\ hist' = [hist EXCEPT !.saveFailed = TRUE, !.halt = "fatal"]
    /\ UNCHANGED << file, runs, opts, prev, locals >>
    /\ UNCHANGED << unit, lister, imp >>

\* main: final summary and exit status
Summary ==
    /\ pc = "summary"
    /\ pc' = "exited"
    /\ exitCode' = FinalExitCode(state)
    /\ hist' = [hist EXCEPT !.halt = "normal", !.report = FinalReport(state, filtered)]
    /\ UNCHANGED << file, runs, opts, prev, locals >>
    /\ UNCHANGED << unit, lister, imp >>

Next ==
    \/ StartRun
    \/ Validate
    \/ ListSource
    \/ ListSourceError
    \/ CheckTarget
    \/ CheckTargetError
    \/ DryRun
    \/ LoadAndPlan
    \/ Dispatch
    \/ UnitSkipped
    \/ UnitExportFails
    \/ UnitImportFails
    \/ UnitSucceeds
    \/ UnitExits
    \/ Fold
    \/ Save
    \/ SaveError
    \/ Summary

Spec == Init /\ [][Next]_vars

(* ------------------ every value of --concurrency --------------------- *)
\* parseInt(options.concurrency, 10) is used as it comes: 0 is passed on
ParsedConcurrency == 0..MaxConc

InitParsed ==
    /\ file = << >>
    /\ ProcessStarts(ParsedConcurrency)
    /\ unit = NoUnit /\ lister = NoLister /\ imp = NoImp

\* every step of a run that can be taken is taken in the end
SpecParsed == InitParsed /\ [][Next]_vars /\ WF_vars(Next)

(* ------------- interruptions and state files found on disk ------------ *)
\* parsed values that lack one of the lists of a MigrationState
NoCompletedFile == [failed |-> << >>, skipped |-> << >>, startTime |-> 0]
NoFailedFile == [completed |-> << >>, skipped |-> << >>, startTime |-> 0]

\* a parsed value with both lists and no skipped field
NoSkippedFile == [completed |-> << >>, failed |-> << >>, startTime |-> 0]

\* the state an earlier fresh run leaves when every engine failed
AllFailedFile ==
    [completed |-> << >>,
     failed |-> [k \in 1..Len(SourceEngines) |->
                    [engine |-> SourceEngines[k], error |-> ExportError]],
     skipped |-> << >>, startTime |-> 0]

FileContents == {<< >>, << Garbage >>, << NoCompletedFile >>, << NoFailedFile >>,
                 << NoSkippedFile >>, << AllFailedFile >>}

InitFaults ==
    file \in FileContents /\ InitProcess /\ unit = NoUnit /\ lister = NoLister /\ imp = NoImp

Running == {"validate", "list", "checkTarget", "dryRun", "load", "batch", "await",
            "save", "summary"}

\* the operator aborts the process; the state file is as last written
Interrupt ==
    /\ pc \in Running
    /\ pc' = "exited"
    /\ exitCode' = 130
    /\ hist' = [hist EXCEPT !.halt = "interrupted"]
    /\ UNCHANGED << file, runs, opts, prev, locals >>
    /\ UNCHANGED << unit, lister, imp >>

\* saveState: fs.writeFile truncates the file and writes it in place; the
\* process is aborted before the write is complete
SaveInterrupted ==
    /\ pc = "save"
    /\ file' = << Garbage >>
    /\ pc' = "exited"
    /\ exitCode' = 130
    /\ hist' = [hist EXCEPT !.halt = "interrupted"]
    /\ UNCHANGED << runs, opts, prev, locals >>
    /\ UNCHANGED << unit, lister, imp >>

\* processInParallel: state.completed.length / state.failed.length (or
\* state.failed.map) of a parsed value without that list throws a TypeError
LoadTypeError ==
    /\ pc = "load"
    /\ ~WellFormed(InitialState(opts, file, runs))
    /\ pc' = "exited"
    /\ exitCode' = 1
    /\ hist' = [hist EXCEPT !.stateReads = @ + 1, !.halt = "typeError"]
    /\ UNCHANGED << file, runs, opts, prev, locals >>
    /\ UNCHANGED << unit, lister, imp >>

\* main, dry-run branch: state.failed.map of a parsed value without failed
DryRunTypeError ==
    /\ pc = "dryRun"
    /\ "failed" \notin DOMAIN DryRunState(opts, file, runs)
    /\ pc' = "exited"
    /\ exitCode' = 1
    /\ hist' = [hist EXCEPT !.stateReads = @ + 1, !.halt = "typeError"]
    /\ UNCHANGED << file, runs, opts, prev, locals >>
    /\ UNCHANGED << unit, lister, imp >>

NextFaults ==
    \/ Next
    \/ Interrupt
    \/ SaveInterrupted
    \/ LoadTypeError
    \/ DryRunTypeError

SpecFaults == InitFaults /\ [][NextFaults]_vars

(* -------------------- listAllEngines, page by page --------------------- *)
\* The listing endpoint answers a request for a page with nothing, or with a
\* response whose results are missing, an empty array or an array of engines,
\* with or without page metadata; the metadata reports the total page count.
Null == [null |-> TRUE]

Answers == {Null} \cup [results : {"missing", "empty", "full"}, hasMeta : BOOLEAN]

Servers == [total : 0..MaxPages, answers : [1..MaxPages -> Answers]]

\* resp.results of page p, when it is an array
ResultsOf(p, resp) ==
    IF resp.results = "full" THEN << [page |-> p, k |-> 1], [page |-> p, k |-> 2] >>
    ELSE << >>

\* listAllEngines: if (!resp || !Array.isArray(resp.results)) break
NoResultsArray(resp) == IF resp = Null THEN TRUE ELSE resp.results = "missing"

\* listAllEngines: if (!metaPage || page >= metaPage.total_pages) break
LastPage(resp, page, total) == IF resp.hasMeta THEN page >= total ELSE TRUE

InitListing ==
    /\ file = << >>
    /\ InitProcess
    /\ unit = NoUnit
    /\ imp = NoImp
    /\ \E srv \in Servers :
         lister = [pc |-> "loop", page |-> 1, all |-> << >>, requests |-> << >>,
                   server |-> srv]

orchestrator == << file, runs, pc, opts, filtered, existingOnTarget, state,
                   remaining, i, batch, batchResults, exitCode, hist, prev >>

\* listAllEngines: the response is empty or carries no results array
ListPageBreaks ==
    /\ lister.pc = "loop"
    /\ NoResultsArray(lister.server.answers[lister.page])
    /\ lister' = [lister EXCEPT !.requests = Append(@, lister.page), !.pc = "returned"]
    /\ UNCHANGED << orchestrator, unit, imp >>

\* listAllEngines: the results are pushed and the loop ends
ListPageLast ==
    /\ lister.pc = "loop"
    /\ LET resp == lister.server.answers[lister.page]
       IN  /\ ~NoResultsArray(resp)
           /\ LastPage(resp, lister.page, lister.server.total)
           /\ lister' = [lister EXCEPT !.requests = Append(@, lister.page),
                                       !.all = @ \o ResultsOf(lister.page, resp),
                                       !.pc = "returned"]
    /\ UNCHANGED << orchestrator, unit, imp >>

\* listAllEngines: the results are pushed and the next page is requested
ListPageNext ==
    /\ lister.pc = "loop"
    /\ LET resp == lister.server.answers[lister.page]
       IN  /\ ~NoResultsArray(resp)
           /\ ~LastPage(resp, lister.page, lister.server.total)
           /\ lister' = [lister EXCEPT !.requests = Append(@, lister.page),
                                       !.all = @ \o ResultsOf(lister.page, resp),
                                       !.page = @ + 1]
    /\ UNCHANGED << orchestrator, unit, imp >>

\* listAllEngines: client.app.listEngines rejects, the error leaves the function
ListPageThrows ==
    /\ lister.pc = "loop"
    /\ lister' = [lister EXCEPT !.requests = Append(@, lister.page), !.pc = "threw"]
    /\ UNCHANGED << orchestrator, unit, imp >>

NextListing ==
    \/ ListPageBreaks
    \/ ListPageLast
    \/ ListPageNext
    \/ ListPageThrows

SpecListing == InitListing /\ [][NextListing]_vars

(* ------------- one unit: export, import, cleanup, step by step --------- *)
\* importAppSearchEngine exists in two versions: one throws on every error,
\* the other ends the process when the target refuses a request.
ImportModules == {"throws", "exits"}

AlreadyExistsError == "already exists"

UnitOptions == {o \in OptionSets : /\ o.filter = "" /\ o.concurrency = 1
                                    /\ ~o.dryRun /\ ~o.resume /\ ~o.retryFailedOnly}

InitUnit ==
    /\ file = << >>
    /\ runs = 0
    /\ pc = "idle"
    /\ opts \in UnitOptions
    /\ filtered = << >>
    /\ existingOnTarget \in SUBSET TargetNames
    /\ state = FreshState(0)
    /\ remaining = << >>
    /\ i = 0
    /\ batch = << >>
    /\ batchResults = << >>
    /\ exitCode = -1
    /\ hist = NoHist
    /\ prev = NoPrev
    /\ lister = NoLister
    /\ imp = NoImp
    /\ \E e \in Range(SourceEngines), t \in SUBSET TargetNames, c \in BOOLEAN,
          m \in ImportModules :
         unit = [pc |-> "start", module |-> m, engine |-> e, cleanup |-> c,
                 target |-> t, targetBefore |-> t, tmp |-> FALSE, found |-> "unknown",
                 created |-> FALSE,
                 calls |-> << >>, outcome |-> "none", error |-> ""]

UnitFailed(u, msg) == [u EXCEPT !.pc = "settled", !.outcome = "failed", !.error = msg]

\* an error reported by the target: thrown by one version of the import
\* module, process.exit(1) in the other
Refused(u, msg) ==
    IF u.module = "exits" THEN [u EXCEPT !.pc = "exited", !.outcome = "exited"]
    ELSE UnitFailed(u, msg)

\* variant: an existing engine is deleted whatever the flag
ExistingEngine_AlwaysDeletes(force) == "delete"

\* createEngine: what is done with an engine that exists
ExistingEngine(force) == IF force THEN "delete" ELSE "refuse"

\* processFn: skip-existing throws SKIPPED before the export
ThrowSkipped ==
    /\ unit.pc = "start"
    /\ SkipGuard(opts, existingOnTarget, unit.engine)
    /\ unit' = UnitFailed(unit, SkippedError)
    /\ UNCHANGED << orchestrator, lister, imp >>

\* exportAppSearchEngine: the engine is read and the temporary file written
ExportEngine ==
    /\ unit.pc = "start"
    /\ ~SkipGuard(opts, existingOnTarget, unit.engine)
    /\ unit' = [unit EXCEPT !.pc = "import", !.tmp = TRUE,
                            !.calls = Append(@, "exportOk")]
    /\ UNCHANGED << orchestrator, lister, imp >>

\* variant: the import is attempted after a failed export
ExportEngineThrows_Ignored ==
    /\ unit.pc = "start"
    /\ ~SkipGuard(opts, existingOnTarget, unit.engine)
    /\ unit' = [unit EXCEPT !.pc = "import", !.calls = Append(@, "exportFailed")]
    /\ UNCHANGED << orchestrator, lister, imp >>

\* exportAppSearchEngine throws: the unit rejects, nothing is imported
ExportEngineThrows ==
    /\ unit.pc = "start"
    /\ ~SkipGuard(opts, existingOnTarget, unit.engine)
    /\ unit' = UnitFailed([unit EXCEPT !.calls = Append(@, "exportFailed")], ExportError)
    /\ UNCHANGED << orchestrator, lister, imp >>

\* importAppSearchEngine: reading or parsing the exported file throws
ReadExportThrows ==
    /\ unit.pc = "import"
    /\ unit' = UnitFailed(unit, ImportError)
    /\ UNCHANGED << orchestrator, lister, imp >>

\* createEngine: getEngine answers 404
GetEngineNotFound ==
    /\ unit.pc = "import"
    /\ DstName(opts, unit.engine) \notin unit.target
    /\ unit' = [unit EXCEPT !.pc = "create", !.found = "no",
                            !.calls = Append(@, "getEngine")]
    /\ UNCHANGED << orchestrator, lister, imp >>

\* createEngine: getEngine answers with the engine
GetEngineFound ==
    /\ unit.pc = "import"
    /\ DstName(opts, unit.engine) \in unit.target
    /\ LET u == [unit EXCEPT !.found = "yes", !.calls = Append(@, "getEngine")]
       IN  unit' = IF ExistingEngine(opts.force) = "delete"
                   THEN [u EXCEPT !.pc = "delete"]
                   ELSE Refused(u, AlreadyExistsError)
    /\ UNCHANGED << orchestrator, lister, imp >>

\* createEngine: getEngine fails with another error
GetEngineThrows ==
    /\ unit.pc = "import"
    /\ unit' = UnitFailed([unit EXCEPT !.calls = Append(@, "getEngine")], ImportError)
    /\ UNCHANGED << orchestrator, lister, imp >>

\* deleteEngine: the engine is removed from the target
DeleteEngine ==
    /\ unit.pc = "delete"
    /\ unit' = [unit EXCEPT !.pc = "create",
                            !.target = @ \ {DstName(opts, unit.engine)},
                            !.calls = Append(@, "deleteEngine")]
    /\ UNCHANGED << orchestrator, lister, imp >>

\* deleteEngine throws
DeleteEngineThrows ==
    /\ unit.pc = "delete"
    /\ unit' = UnitFailed([unit EXCEPT !.calls = Append(@, "deleteEngine")], ImportError)
    /\ UNCHANGED << orchestrator, lister, imp >>

\* createEngine: the engine is created on the target
CreateEngine ==
    /\ unit.pc = "create"
    /\ unit' = [unit EXCEPT !.pc = "settings", !.created = TRUE,
                            !.target = @ \cup {DstName(opts, unit.engine)},
                            !.calls = Append(@, "createEngine")]
    /\ UNCHANGED << orchestrator, lister, imp >>

\* createEngine: the target answers with errors
CreateEngineRefused ==
    /\ unit.pc = "create"
    /\ unit' = Refused([unit EXCEPT !.calls = Append(@, "createEngine")], ImportError)
    /\ UNCHANGED << orchestrator, lister, imp >>

\* importSchema .. importSearchSettings, importCrawlerViaRest: all accepted
ImportSettings ==
    /\ unit.pc = "settings"
    /\ unit' = [unit EXCEPT !.pc = "cleanup",
                            !.calls = @ \o << "putSettings", "importOk" >>]
    /\ UNCHANGED << orchestrator, lister, imp >>

\* importSchema .. importSearchSettings: the target answers with errors
ImportSettingsRefused ==
    /\ unit.pc = "settings"
    /\ unit' = Refused([unit EXCEPT !.calls = Append(@, "putSettings")], ImportError)
    /\ UNCHANGED << orchestrator, lister, imp >>

\* processFn: fs.unlink removes the temporary file
Cleanup ==
    /\ unit.pc = "cleanup"
    /\ unit.cleanup
    /\ unit' = [unit EXCEPT !.pc = "settled", !.outcome = "success", !.tmp = FALSE,
                            !.calls = Append(@, "unlink")]
    /\ UNCHANGED << orchestrator, lister, imp >>

\* variant: a failed unlink rejects the unit
CleanupFails_Escalates ==
    /\ unit.pc = "cleanup"
    /\ unit.cleanup
    /\ unit' = UnitFailed([unit EXCEPT !.calls = Append(@, "unlinkFailed")], ImportError)
    /\ UNCHANGED << orchestrator, lister, imp >>

\* processFn: fs.unlink rejects, .catch(() => {}) swallows the error
CleanupFails ==
    /\ unit.pc = "cleanup"
    /\ unit.cleanup
    /\ unit' = [unit EXCEPT !.pc = "settled", !.outcome = "success",
                            !.calls = Append(@, "unlinkFailed")]
    /\ UNCHANGED << orchestrator, lister, imp >>

\* processFn: no --cleanup, the temporary file is kept
NoCleanup ==
    /\ unit.pc = "cleanup"
    /\ ~unit.cleanup
    /\ unit' = [unit EXCEPT !.pc = "settled", !.outcome = "success"]
    /\ UNCHANGED << orchestrator, lister, imp >>

NextUnit ==
    \/ ThrowSkipped
    \/ ExportEngine
    \/ ExportEngineThrows
    \/ ReadExportThrows
    \/ GetEngineNotFound
    \/ GetEngineFound
    \/ GetEngineThrows
    \/ DeleteEngine
    \/ DeleteEngineThrows
    \/ CreateEngine
    \/ CreateEngineRefused
    \/ ImportSettings
    \/ ImportSettingsRefused
    \/ Cleanup
    \/ CleanupFails
    \/ NoCleanup

SpecUnit == InitUnit /\ [][NextUnit]_vars

(* --------------------- createEngine: the create loop ------------------ *)
maxRetries == 5

NameTakenError == "name still taken"
CreationFailedError == "creation failed"
CreateCallError == "create call failed"

\* nothing outside the import module moves while one of its functions runs
InitImport ==
    /\ file = << >>
    /\ InitProcess
    /\ unit = NoUnit
    /\ lister = NoLister

InitCreate ==
    /\ InitImport
    /\ imp = [pc |-> "create", attempt |-> 1, answers |-> << >>, error |-> ""]

\* variant: one more attempt is made before giving up
AfterFailedAttempt_OneMore(c, err) ==
    IF c.attempt = maxRetries + 1
    THEN [c EXCEPT !.pc = "threw", !.error = err]
    ELSE [c EXCEPT !.attempt = @ + 1]

\* createEngine: the last attempt throws its error, an earlier one waits and
\* goes to the next attempt
AfterFailedAttempt(c, err) ==
    IF c.attempt = maxRetries
    THEN [c EXCEPT !.pc = "threw", !.error = err]
    ELSE [c EXCEPT !.attempt = @ + 1]

\* createEngine: the create call answers without errors
CreateAccepted ==
    /\ imp.pc = "create"
    /\ imp' = [imp EXCEPT !.pc = "returned", !.answers = Append(@, "ok")]
    /\ UNCHANGED << orchestrator, unit, lister >>

\* createEngine: the answer says the name is already taken
CreateNameTaken ==
    /\ imp.pc = "create"
    /\ imp' = AfterFailedAttempt([imp EXCEPT !.answers = Append(@, "taken")],
                                 NameTakenError)
    /\ UNCHANGED << orchestrator, unit, lister >>

\* createEngine: the answer carries other errors
CreateAnswersErrors ==
    /\ imp.pc = "create"
    /\ imp' = AfterFailedAttempt([imp EXCEPT !.answers = Append(@, "errors")],
                                 CreationFailedError)
    /\ UNCHANGED << orchestrator, unit, lister >>

\* createEngine: the create call itself throws
CreateCallThrows ==
    /\ imp.pc = "create"
    /\ imp' = AfterFailedAttempt([imp EXCEPT !.answers = Append(@, "throws")],
                                 CreateCallError)
    /\ UNCHANGED << orchestrator, unit, lister >>

NextCreate ==
    \/ CreateAccepted
    \/ CreateNameTaken
    \/ CreateAnswersErrors
    \/ CreateCallThrows

SpecCreate == InitCreate /\ [][NextCreate]_vars

(* ------------------- deleteEngine: delete, then wait ------------------ *)
maxWait == 90000      \* milliseconds the wait loop may last
pollSleep == 3000     \* sleep before every poll

\* time a poll takes on top of the sleep
PollLatencies == {0, 1000}

InitDelete ==
    /\ InitImport
    /\ imp = [pc |-> "delete", accepted |-> FALSE, elapsed |-> 0, polls |-> 0,
              lastPoll |-> "none", sawNotFound |-> FALSE]

\* deleteEngine: the deletion command is accepted
DeleteAccepted ==
    /\ imp.pc = "delete"
    /\ imp' = [imp EXCEPT !.pc = "wait", !.accepted = TRUE]
    /\ UNCHANGED << orchestrator, unit, lister >>

\* deleteEngine: the deletion command is answered 404, nothing to wait for
DeleteNotFound ==
    /\ imp.pc = "delete"
    /\ imp' = [imp EXCEPT !.pc = "returned"]
    /\ UNCHANGED << orchestrator, unit, lister >>

\* deleteEngine: the deletion command fails with another error
DeleteThrows ==
    /\ imp.pc = "delete"
    /\ imp' = [imp EXCEPT !.pc = "threw"]
    /\ UNCHANGED << orchestrator, unit, lister >>

\* deleteEngine: while ((Date.now() - startTime) < maxWait)
WaitGoesOn(c) == c.elapsed < maxWait

\* deleteEngine: the poll finds the engine, the loop goes on
PollStillExists ==
    /\ imp.pc = "wait"
    /\ WaitGoesOn(imp)
    /\ \E d \in PollLatencies :
         imp' = [imp EXCEPT !.elapsed = @ + pollSleep + d, !.polls = @ + 1,
                            !.lastPoll = "present"]
    /\ UNCHANGED << orchestrator, unit, lister >>

\* deleteEngine: the poll fails with an error that is not 404, ignored
PollFails ==
    /\ imp.pc = "wait"
    /\ WaitGoesOn(imp)
    /\ \E d \in PollLatencies :
         imp' = [imp EXCEPT !.elapsed = @ + pollSleep + d, !.polls = @ + 1,
                            !.lastPoll = "error"]
    /\ UNCHANGED << orchestrator, unit, lister >>

\* deleteEngine: the poll is answered 404, break, final sleep, return
PollNotFound ==
    /\ imp.pc = "wait"
    /\ WaitGoesOn(imp)
    /\ \E d \in PollLatencies :
         imp' = [imp EXCEPT !.elapsed = @ + pollSleep + d, !.polls = @ + 1,
                            !.lastPoll = "notFound", !.sawNotFound = TRUE,
                            !.pc = "returned"]
    /\ UNCHANGED << orchestrator, unit, lister >>

\* deleteEngine: maxWait has passed, the loop ends, final sleep, return
WaitTimesOut ==
    /\ imp.pc = "wait"
    /\ ~WaitGoesOn(imp)
    /\ imp' = [imp EXCEPT !.pc = "returned"]
    /\ UNCHANGED << orchestrator, unit, lister >>

NextDelete ==
    \/ DeleteAccepted
    \/ DeleteNotFound
    \/ DeleteThrows
    \/ PollStillExists
    \/ PollFails
    \/ PollNotFound
    \/ WaitTimesOut

SpecDelete == InitDelete /\ [][NextDelete]_vars

(* -------------------- importSchema: batches of fields ----------------- *)
MaxFields == 130      \* largest exported schema taken

chunkSize == 64

FieldTypes == << "text", "number", "date", "geolocation" >>

\* the exported schema: n fields in the order of Object.keys, the type of
\* field k chosen by the offset t
ExportedSchema(n, t) ==
    [k \in 1..n |-> [name |-> k, type |-> FieldTypes[((k + t) % 4) + 1]]]

InitSchema ==
    /\ InitImport
    /\ \E n \in 0..MaxFields, t \in 0..1, m \in ImportModules :
         imp = [pc |-> "schema", module |-> m, schema |-> ExportedSchema(n, t),
                i |-> 0, sent |-> << >>, refusedAt |-> 0]

\* variant: a batch takes one field more
SchemaChunk_OneTooMany(schema, idx) ==
    SubSeq(schema, idx + 1, Min(idx + chunkSize + 1, Len(schema)))

\* importSchema: fields.slice(i, i + chunkSize) with the type of every field
SchemaChunk(schema, idx) ==
    SubSeq(schema, idx + 1, Min(idx + chunkSize, Len(schema)))

\* importSchema: nothing to send
SchemaEmpty ==
    /\ imp.pc = "schema"
    /\ Len(imp.schema) = 0
    /\ imp' = [imp EXCEPT !.pc = "returned"]
    /\ UNCHANGED << orchestrator, unit, lister >>

\* importSchema: putSchema answers without errors, i += chunkSize
PutSchemaAccepted ==
    /\ imp.pc = "schema"
    /\ imp.i < Len(imp.schema)
    /\ imp' = [imp EXCEPT !.sent = Append(@, SchemaChunk(imp.schema, imp.i)),
                          !.i = @ + chunkSize]
    /\ UNCHANGED << orchestrator, unit, lister >>

\* importSchema: putSchema answers with errors; one module throws, the other
\* ends the process
PutSchemaRefused ==
    /\ imp.pc = "schema"
    /\ imp.i < Len(imp.schema)
    /\ imp' = [imp EXCEPT !.sent = Append(@, SchemaChunk(imp.schema, imp.i)),
                          !.refusedAt = Len(imp.sent) + 1,
                          !.pc = IF imp.module = "exits" THEN "exited" ELSE "threw"]
    /\ UNCHANGED << orchestrator, unit, lister >>

\* importSchema: the putSchema call itself fails
PutSchemaThrows ==
    /\ imp.pc = "schema"
    /\ imp.i < Len(imp.schema)
    /\ imp' = [imp EXCEPT !.sent = Append(@, SchemaChunk(imp.schema, imp.i)),
                          !.refusedAt = Len(imp.sent) + 1,
                          !.pc = "threw"]
    /\ UNCHANGED << orchestrator, unit, lister >>

\* importSchema: the loop is over
SchemaDone ==
    /\ imp.pc = "schema"
    /\ Len(imp.schema) > 0
    /\ imp.i >= Len(imp.schema)
    /\ imp' = [imp EXCEPT !.pc = "returned"]
    /\ UNCHANGED << orchestrator, unit, lister >>

NextSchema ==
    \/ SchemaEmpty
    \/ PutSchemaAccepted
    \/ PutSchemaRefused
    \/ PutSchemaThrows
    \/ SchemaDone

SpecSchema == InitSchema /\ [][NextSchema]_vars

TypeOK ==
    /\ Len(file) <= 1
    /\ runs \in 0..MaxRuns
    /\ exitCode \in {-1, 0, 1}
    /\ Cardinality(InFlight) <= Len(batch)

(* ------------------------------- claims ------------------------------- *)
EntriesFor(st, e) == SelectSeq(st.failed, LAMBDA f : f.engine = e)

LiveRunEnded == pc = "exited" /\ hist.halt = "normal" /\ hist.loaded # << >>

\* C1 (as claimed): in every persisted state no engine name is both in
\* completed and the engine of an entry of failed.
C1_MutualExclusion ==
    \A k \in 1..Len(file) : Range(file[k].completed) \cap FailedNames(file[k]) = {}

\* C2 (as claimed): in every persisted state each engine name has at most one
\* entry in failed.
C2_FailedEntryUnique ==
    \A k \in 1..Len(file) : \A e \in FailedNames(file[k]) : Len(EntriesFor(file[k], e)) = 1

\* C3: after a resume + retryFailedOnly run, every engine that had a failure
\* entry and was processed is, if it succeeded, in completed with no failure
\* entry, and if it failed again, has exactly one failure entry carrying the
\* new error.
C3_RetryClearsStaleFailure ==
    (LiveRunEnded /\ opts.retryFailedOnly) =>
        \A k \in 1..Len(hist.outcomes) :
            LET r == hist.outcomes[k]
            IN  r.engine \in FailedNames(hist.loaded[1]) =>
                    /\ file = << state >>
                    /\ IF r.status = "success"
                       THEN /\ r.engine \in Range(file[1].completed)
                            /\ r.engine \notin FailedNames(file[1])
                       ELSE EntriesFor(file[1], r.engine) =
                                << [engine |-> r.engine, error |-> r.error] >>

\* a retry run in which one stale failure succeeded and another failed again
\* with an error different from the recorded one
C3_Witness ==
    /\ LiveRunEnded
    /\ opts.retryFailedOnly
    /\ \E k \in 1..Len(hist.outcomes) :
         /\ hist.outcomes[k].status = "success"
         /\ hist.outcomes[k].engine \in FailedNames(hist.loaded[1])
    /\ \E k \in 1..Len(hist.outcomes) :
         /\ hist.outcomes[k].status = "failed"
         /\ [engine |-> hist.outcomes[k].engine, error |-> hist.outcomes[k].error]
                \notin Range(hist.loaded[1].failed)

BatchSettled == batch # << >> /\ InFlight = {}

FailedUnits == {k \in DOMAIN batchResults : batchResults[k].status = "failed"}

BatchRecorded(st) ==
    \A k \in DOMAIN batchResults :
        IF batchResults[k].status = "success"
        THEN batch[k] \in Range(st.completed)
        ELSE [engine |-> batch[k], error |-> batchResults[k].error] \in Range(st.failed)

C5_ConcurrencyBound ==
    /\ Cardinality(hist.inFlight) <= opts.concurrency
    /\ \A x, y \in hist.inFlight : x.b = y.b

\* a second batch is in flight with as many units as the concurrency allows
C5_Witness ==
    /\ pc = "await"
    /\ i > 0
    /\ Cardinality(hist.inFlight) = opts.concurrency

SameInputsAsPrev ==
    /\ prev.ok
    /\ opts = [prev.opts EXCEPT !.resume = TRUE]
    /\ hist.listCalls > 0
    /\ pc # "list"
    /\ filtered = prev.filtered

\* C6: when the previous run ended with every unit succeeded, a run with the
\* same candidates, filter and flags and resume set dispatches no unit and
\* leaves the state file as it found it.
C6_IdempotentResume ==
    SameInputsAsPrev => hist.dispatched = << >> /\ file = hist.fileAtStart

\* the second of two identical runs has ended, the first having migrated engines
C6_Witness ==
    /\ SameInputsAsPrev
    /\ LiveRunEnded
    /\ filtered # << >>
    /\ file # << >>
    /\ Range(filtered) \subseteq Range(file[1].completed)

DryRunWillMigrate ==
    {e \in Range(filtered) :
        Classify(opts, DryRunState(opts, hist.fileAtStart, runs), existingOnTarget, e)
            \in MigrateClasses}

\* C7: the engines a completed live run hands to export/import are exactly
\* the engines the dry-run classification of the same inputs marks fresh,
\* retry or overwrite.
C7_DryRunLiveParity ==
    (LiveRunEnded /\ ~opts.dryRun) =>
        /\ hist.exported = DryRunWillMigrate
        /\ hist.imported \subseteq DryRunWillMigrate

\* a live resume run with skipExisting and force that migrated some candidates,
\* one of them present on the target, and left others out
C7_Witness ==
    /\ LiveRunEnded
    /\ ~opts.dryRun
    /\ opts.resume
    /\ opts.skipExisting
    /\ opts.force
    /\ \E e \in hist.exported : DstName(opts, e) \in existingOnTarget
    /\ hist.exported # Range(filtered)

SkippedCandidates == {e \in Range(filtered) : SkipGuard(opts, existingOnTarget, e)}

\* C8 (as claimed): in a live run with skipExisting and without force, a
\* candidate whose destination exists on the target is placed in no batch, is
\* recorded neither in completed nor in failed, and does not by itself make
\* the exit status non-zero.
C8_SkipExistingExcluded ==
    ~opts.dryRun =>
        /\ \A e \in SkippedCandidates :
              /\ e \notin Range(hist.dispatched)
              /\ \A k \in 1..Len(hist.outcomes) : hist.outcomes[k].engine # e
        /\ (/\ LiveRunEnded
            /\ hist.loaded[1].failed = << >>
            /\ \A k \in 1..Len(hist.outcomes) :
                   hist.outcomes[k].status = "failed"
                       => hist.outcomes[k].engine \in SkippedCandidates)
           => exitCode = 0

C10_ConfigErrorHaltsFirst ==
    (runs > 0 /\ opts.retryFailedOnly /\ ~opts.resume) =>
        /\ pc \in {"validate", "exited"}
        /\ pc = "exited" => exitCode = 1
        /\ hist.listCalls = 0
        /\ hist.dispatched = << >>
        /\ hist.exported = {} /\ hist.imported = {}
        /\ hist.stateReads = 0 /\ hist.stateWrites = 0
        /\ file = hist.fileAtStart

\* the flags were rejected while a state file of an earlier run exists
C10_Witness ==
    /\ pc = "exited"
    /\ opts.retryFailedOnly /\ ~opts.resume
    /\ exitCode = 1
    /\ file # << >>

\* C11: the state holding all outcomes of a batch is saved after every unit of
\* the batch has settled and before the next batch is dispatched, once per batch.
C11_PersistPerBatch ==
    /\ pc \in {"await", "save"} =>
          /\ hist.stateWrites = hist.batches - 1
          /\ hist.savedOutcomes = IF pc = "await" THEN hist.outcomes
                                  ELSE SubSeq(hist.outcomes, 1, Len(hist.savedOutcomes))
    /\ (pc \in {"batch", "summary"} /\ hist.batches > 0) =>
          /\ hist.stateWrites = hist.batches
          /\ InFlight = {}
          /\ Len(hist.outcomes) = Len(hist.dispatched)
          /\ hist.savedOutcomes = hist.outcomes
          /\ file = << state >>
          /\ BatchRecorded(file[1])

\* the second batch is in flight and the first one has been saved
C11_Witness ==
    /\ pc = "await"
    /\ hist.batches = 2
    /\ hist.stateWrites = 1
    /\ file # << >>

Recorded(st, r) ==
    IF r.status = "success"
    THEN r.engine \in Range(st.completed)
    ELSE [engine |-> r.engine, error |-> r.error] \in Range(st.failed)

\* C12 (as claimed): when a run is interrupted, the state file holds the
\* outcome of every unit of every batch that was saved before; only outcomes
\* of the batch being processed or saved can be missing.
C12_CrashSafety ==
    (pc = "exited" /\ hist.halt = "interrupted") =>
        \A k \in 1..Len(hist.savedOutcomes) :
            /\ file # << >>
            /\ WellFormed(file[1])
            /\ Recorded(file[1], hist.savedOutcomes[k])

\* C13 (as claimed): a run started with the flags of an interrupted run, plus
\* resume, from the state that run saved last, has in its work list every
\* engine the interrupted run had not yet saved an outcome for.
C13_ResumableAfterInterruption ==
    (/\ prev.interrupted
     /\ opts = [prev.opts EXCEPT !.resume = TRUE]
     /\ filtered = prev.filtered
     /\ hist.fileAtStart # << Garbage >>
     /\ hist.loaded # << >>)
    => prev.pending \subseteq Range(remaining)

\* C14 (as claimed): a failing unit never ends the process; every run that
\* loaded its state reaches the summary with an outcome for every engine of
\* the work list.
C14_UnitErrorIsolated ==
    /\ hist.halt # "unitExit"
    /\ (LiveRunEnded /\ ~hist.saveFailed) => Len(hist.outcomes) = Len(remaining)

\* C15 (as claimed): when the source or the target listing fails the run halts
\* with nothing dispatched and nothing written.
C15_ListingErrorAborts ==
    hist.listFailed # "none" =>
        /\ pc = "exited"
        /\ exitCode # 0
        /\ hist.dispatched = << >>
        /\ hist.stateWrites = 0

\* C16: when saveState fails after a batch, no further unit is dispatched and
\* the process exits non-zero.
C16_PersistenceErrorFatal ==
    hist.saveFailed =>
        /\ pc = "exited"
        /\ exitCode # 0
        /\ hist.inFlight = {}
        /\ Len(hist.dispatched) = Len(hist.outcomes)
        /\ hist.batches = hist.stateWrites + 1

\* the save of the first of two batches failed
C16_Witness ==
    /\ hist.saveFailed
    /\ pc = "exited"
    /\ Len(hist.dispatched) < Len(remaining)

IsMigrationState(x) == DOMAIN x = {"completed", "failed", "skipped", "startTime"}

\* C17 (as claimed): whatever the state file holds, a resume run does not
\* fail because of it, and a file that is not a MigrationState is loaded as
\* a fresh state.
C17_LoadFailsOpen ==
    /\ hist.halt # "typeError"
    /\ (/\ opts.resume
        /\ pc \in {"batch", "await", "save", "summary"}
        /\ (hist.fileAtStart = << >> \/ ~IsMigrationState(hist.fileAtStart[1])))
       => hist.loaded = << FreshState(runs) >>

\* C18: a dry run makes no export or import call, dispatches no unit and
\* leaves the state file as it found it.
C18_DryRunNoEffect ==
    (runs > 0 /\ opts.dryRun) =>
        /\ hist.dispatched = << >>
        /\ hist.exported = {} /\ hist.imported = {}
        /\ hist.stateWrites = 0
        /\ file = hist.fileAtStart

\* a dry run over an existing state file listed engines to migrate
C18_Witness ==
    /\ pc = "exited"
    /\ opts.dryRun
    /\ hist.halt = "normal"
    /\ hist.willMigrate > 0
    /\ file # << >>

DryRunEnded == pc = "exited" /\ opts.dryRun /\ hist.halt = "normal" /\ filtered # << >>

\* C19: every filtered candidate gets one of the six classifications, chosen
\* with the precedence completed, not-failed, exists, retry, overwrite, fresh,
\* and willMigrate + willSkip is the number of candidates.
C19_ClassificationPartition ==
    DryRunEnded =>
        /\ Len(hist.classes) = Len(filtered)
        /\ hist.willMigrate + hist.willSkip = Len(filtered)
        /\ hist.willMigrate =
              Cardinality({k \in 1..Len(filtered) : hist.classes[k] \in MigrateClasses})
        /\ \A k \in 1..Len(filtered) :
              LET st == DryRunState(opts, hist.fileAtStart, runs)
                  done == filtered[k] \in CompletedSet(st)
                  notFailed == opts.retryFailedOnly /\ filtered[k] \notin FailedNames(st)
                  exists == DstName(opts, filtered[k]) \in existingOnTarget
                  skipExists == opts.skipExisting /\ exists /\ ~opts.force
                  c == hist.classes[k]
              IN  /\ c = "COMPLETED" <=> done
                  /\ c = "SKIP - not failed" <=> ~done /\ notFailed
                  /\ c = "SKIP - exists" <=> ~done /\ ~notFailed /\ skipExists
                  /\ c = "RETRY" <=> /\ ~done /\ ~notFailed /\ ~skipExists
                                     /\ filtered[k] \in FailedNames(st)
                  /\ c = "OVERWRITE" <=> /\ ~done /\ ~notFailed /\ ~skipExists
                                         /\ filtered[k] \notin FailedNames(st)
                                         /\ exists
                  /\ c = "FRESH" <=> /\ ~done /\ ~notFailed /\ ~skipExists
                                     /\ filtered[k] \notin FailedNames(st)
                                     /\ ~exists

\* a retry-only dry run with skipExisting in which a never-failed candidate
\* exists on the target, next to a candidate to retry
C19_Witness ==
    /\ DryRunEnded
    /\ opts.retryFailedOnly /\ opts.skipExisting /\ ~opts.force
    /\ \E k \in 1..Len(filtered) :
          /\ hist.classes[k] = "SKIP - not failed"
          /\ DstName(opts, filtered[k]) \in existingOnTarget
    /\ "RETRY" \in Range(hist.classes)

\* C20: under force no candidate is skipped for existing on the target, in
\* the dry-run classification and in the live run.
C20_ForceWins ==
    opts.force =>
        /\ "SKIP - exists" \notin Range(hist.classes)
        /\ \A k \in DOMAIN batchResults : batchResults[k].error # SkippedError
        /\ \A k \in 1..Len(hist.outcomes) : hist.outcomes[k].error # SkippedError

\* a dry run with skipExisting and force marks an existing engine OVERWRITE
C20_Witness ==
    /\ DryRunEnded
    /\ opts.force /\ opts.skipExisting
    /\ \E k \in 1..Len(filtered) :
          /\ hist.classes[k] = "OVERWRITE"
          /\ DstName(opts, filtered[k]) \in existingOnTarget

ImportCalls == {"getEngine", "deleteEngine", "createEngine", "putSettings"}

TargetWrites == {"deleteEngine", "createEngine", "putSettings"}

CallsBefore(k) == {unit.calls[j] : j \in 1..(k - 1)}

\* C21: a delete call for the destination engine is issued only under force
\* and after the engine was found to exist; when it exists and force is not
\* set the import fails and nothing on the target is deleted, created or
\* modified.
C21_DeleteOnlyUnderForce ==
    unit.pc # "none" =>
        /\ "deleteEngine" \in Range(unit.calls) => opts.force /\ unit.found = "yes"
        /\ (unit.found = "yes" /\ ~opts.force) =>
              /\ unit.outcome \in {"failed", "exited"}
              /\ Range(unit.calls) \cap TargetWrites = {}
              /\ unit.target = unit.targetBefore
              /\ DstName(opts, unit.engine) \in unit.target

\* the import found the destination engine and, without force, failed
C21_Witness ==
    /\ unit.pc = "settled"
    /\ unit.found = "yes"
    /\ ~opts.force
    /\ unit.outcome = "failed"
    /\ unit.error = AlreadyExistsError

\* C23: every call of the import follows the successful end of the export of
\* the same engine; after a failed export no import call is made; the unit
\* succeeds only if export and import both succeeded.
C23_UnitSequencing ==
    unit.pc # "none" =>
        /\ \A k \in 1..Len(unit.calls) :
              unit.calls[k] \in ImportCalls \cup {"importOk"} =>
                  "exportOk" \in CallsBefore(k)
        /\ "exportFailed" \in Range(unit.calls) =>
              /\ Range(unit.calls) \cap ImportCalls = {}
              /\ unit.outcome = "failed"
              /\ unit.target = unit.targetBefore
        /\ unit.outcome = "success" => {"exportOk", "importOk"} \subseteq Range(unit.calls)

\* a unit whose export failed has settled as failed
C23_Witness ==
    /\ unit.pc = "settled"
    /\ unit.calls = << "exportFailed" >>
    /\ unit.outcome = "failed"

\* C24: the temporary file is unlinked only when cleanup is set and after the
\* import has succeeded, and a failing unlink leaves the unit successful.
C24_CleanupAfterSuccess ==
    unit.pc # "none" =>
        /\ \A k \in 1..Len(unit.calls) :
              unit.calls[k] \in {"unlink", "unlinkFailed"} =>
                  unit.cleanup /\ "importOk" \in CallsBefore(k)
        /\ ("exportOk" \in Range(unit.calls) /\ ~unit.tmp) =>
              unit.cleanup /\ unit.outcome = "success"
        /\ unit.outcome \in {"failed", "exited"} =>
              Range(unit.calls) \cap {"unlink", "unlinkFailed"} = {}
        /\ "unlinkFailed" \in Range(unit.calls) => unit.outcome = "success"

\* the unlink of the temporary file failed and the unit succeeded
C24_Witness ==
    /\ unit.pc = "settled"
    /\ "unlinkFailed" \in Range(unit.calls)
    /\ unit.tmp
    /\ unit.outcome = "success"

SucceededEngines ==
    {hist.outcomes[k].engine : k \in {j \in 1..Len(hist.outcomes) :
                                         hist.outcomes[j].status = "success"}}

FailedOutcomes ==
    {[engine |-> hist.outcomes[k].engine, error |-> hist.outcomes[k].error] :
        k \in {j \in 1..Len(hist.outcomes) : hist.outcomes[j].status = "failed"}}

FreshRun == ~opts.resume /\ hist.loaded # << >>

\* C22: in a fresh run with concurrency c over n candidates, batch k holds the
\* candidates k*c .. min((k+1)*c, n) - 1 in listing order, and at the end
\* completed is the set of engines whose unit succeeded and failed holds one
\* entry, with the unit's error message, for each engine whose unit failed.
C22_BatchPartitionAndOutcome ==
    FreshRun =>
        /\ pc \in {"await", "save"} =>
              LET k == hist.batches - 1
                  c == opts.concurrency
                  n == Len(filtered)
                  hi == IF (k + 1) * c < n THEN (k + 1) * c ELSE n
              IN  batch = [j \in 1..(hi - k * c) |-> filtered[k * c + j]]
        /\ LiveRunEnded =>
              /\ Len(hist.outcomes) = Len(filtered)
              /\ Range(state.completed) = SucceededEngines
              /\ Range(state.failed) = FailedOutcomes
              /\ \A e \in FailedNames(state) : Len(EntriesFor(state, e)) = 1

\* a fresh run of two batches of one ended, the first unit failed on import
\* and the second succeeded
C22_Witness ==
    /\ FreshRun
    /\ LiveRunEnded
    /\ hist.batches = 2
    /\ hist.outcomes[1] = Failure(filtered[1], ImportError)
    /\ hist.outcomes[2].status = "success"

\* C25: a resume run dispatches no engine of the loaded completed list, and
\* with retryFailedOnly the run dispatches exactly the candidates that have an
\* entry in the loaded failed list and are not in completed.
C25_ResumeWorkSet ==
    (opts.resume /\ hist.loaded # << >>) =>
        LET ld == hist.loaded[1]
        IN  /\ Range(hist.dispatched) \cap Range(ld.completed) = {}
            /\ opts.retryFailedOnly =>
                  Range(hist.dispatched) \subseteq FailedNames(ld)
            /\ (opts.retryFailedOnly /\ LiveRunEnded) =>
                  Range(hist.dispatched) =
                      {e \in Range(filtered) :
                          e \in FailedNames(ld) /\ e \notin Range(ld.completed)}

\* a retry run ended having dispatched a failed engine and left out a
\* candidate that was never attempted
C25_Witness ==
    /\ LiveRunEnded
    /\ opts.resume /\ opts.retryFailedOnly
    /\ hist.dispatched # << >>
    /\ \E e \in Range(filtered) :
          /\ e \notin Range(hist.dispatched)
          /\ e \notin Range(hist.loaded[1].completed)

\* C26: a live run without resume reads no state file, starts from empty
\* lists, dispatches every candidate, and its first save replaces what the
\* state file held.
C26_FreshWithoutResume ==
    FreshRun =>
        /\ hist.stateReads = 0
        /\ hist.loaded[1] = [completed |-> << >>, failed |-> << >>,
                             skipped |-> << >>, startTime |-> runs]
        /\ remaining = filtered
        /\ LiveRunEnded => hist.dispatched = filtered
        /\ IF hist.stateWrites = 0
           THEN file = hist.fileAtStart
           ELSE /\ file[1].startTime = runs
                /\ Range(file[1].completed) \subseteq SucceededEngines
                /\ Range(file[1].failed) \subseteq FailedOutcomes
                /\ file[1].skipped = << >>

\* a run without resume dispatched an engine the state file listed as completed
\* and has saved its own state over that file
C26_Witness ==
    /\ FreshRun
    /\ hist.fileAtStart # << >>
    /\ hist.stateWrites > 0
    /\ \E e \in Range(hist.dispatched) : e \in Range(hist.fileAtStart[1].completed)
    /\ file # hist.fileAtStart

\* C27: fold and save leave startTime as loaded, a resume run keeps the
\* startTime of the state file, and the persisted startTime is that of the
\* fresh run the state descends from.
C27_StartTimePreserved ==
    /\ hist.loaded # << >> => state.startTime = hist.loaded[1].startTime
    /\ (opts.resume /\ hist.fileAtStart # << >> /\ hist.loaded # << >>) =>
           hist.loaded[1].startTime = hist.fileAtStart[1].startTime
    /\ file # << >> => file[1].startTime = hist.created

\* a resume run has saved a state created by an earlier run
C27_Witness ==
    /\ opts.resume
    /\ hist.stateWrites > 0
    /\ hist.fileAtStart # << >>
    /\ file[1].startTime < runs
    /\ file # hist.fileAtStart

\* the state at the start of the batch in flight
StateBeforeBatch ==
    IF hist.stateWrites > 0 THEN file[1]
    ELSE IF opts.retryFailedOnly THEN [hist.loaded[1] EXCEPT !.failed = << >>]
    ELSE hist.loaded[1]

SettledOk == SelectSeq(batchResults, LAMBDA r : r.status = "success")
SettledBad == SelectSeq(batchResults, LAMBDA r : r.status = "failed")

\* C28 (as claimed): every state written by save has the four fields
\* completed, failed, skipped and startTime, also in a resume run whose state
\* file lacked the skipped field.
C28_PersistedLayout ==
    (hist.stateWrites > 0 /\ file # << Garbage >>) => IsMigrationState(file[1])

RECURSIVE PagesConcat(_, _)
\* the results of the pages 1..n, page after page
PagesConcat(srv, n) ==
    IF n = 0 THEN << >>
    ELSE PagesConcat(srv, n - 1) \o
            (IF NoResultsArray(srv.answers[n]) THEN << >> ELSE ResultsOf(n, srv.answers[n]))

\* C29 (as claimed): the pages are requested in the order 1, 2, ..., the
\* value returned is the concatenation of their results, and a further page
\* is requested only after a page that is below the reported total page count
\* and returned results.
C29_ListingDrainsPages ==
    lister.pc # "none" =>
        /\ lister.requests = [k \in 1..Len(lister.requests) |-> k]
        /\ lister.pc = "returned" =>
               lister.all = PagesConcat(lister.server, Len(lister.requests))
        /\ \A k \in 1..(Len(lister.requests) - 1) :
               /\ k < lister.server.total
               /\ lister.server.answers[k] # Null
               /\ lister.server.answers[k].results = "full"

\* C30: while the units of a batch are awaited the state is the one the batch
\* started with and nothing is saved; after the fold the state is that state
\* extended by the batch's outcomes in batch order, whatever the order in
\* which the units settled.
C30_NoMidBatchMutation ==
    /\ pc = "await" =>
          /\ state = StateBeforeBatch
          /\ hist.stateWrites = hist.batches - 1
    /\ pc = "save" =>
          /\ InFlight = {}
          /\ state.completed = StateBeforeBatch.completed \o
                 [k \in 1..Len(SettledOk) |-> SettledOk[k].engine]
          /\ state.failed = StateBeforeBatch.failed \o
                 [k \in 1..Len(SettledBad) |->
                     [engine |-> SettledBad[k].engine, error |-> SettledBad[k].error]]

\* in a batch of two the second unit has settled while the first is in flight
C30_Witness ==
    /\ pc = "await"
    /\ Len(batch) = 2
    /\ batchResults[1].status = "pending"
    /\ batchResults[2].status = "failed"

\* C31 (as claimed): after an interruption the state file holds what it held
\* when the run started or a complete state written by this run, never an
\* empty or partly written record.
C31_AtomicSave ==
    (pc = "exited" /\ hist.halt = "interrupted") =>
        \/ file = hist.fileAtStart
        \/ file # << >> /\ file[1] # Garbage

Ceil(n, c) == (n + c - 1) \div c

\* the run is over and every unit it dispatched has settled
EndedAllSettled ==
    /\ pc = "exited"
    /\ hist.loaded # << >>
    /\ hist.inFlight = {}
    /\ hist.halt # "unitExit"

AllBatchesDone ==
    /\ hist.batches = Ceil(Len(remaining), opts.concurrency)
    /\ hist.dispatched = remaining
    /\ Len(hist.outcomes) = Len(remaining)
    /\ \A k \in 1..Len(hist.outcomes) :
          /\ hist.outcomes[k].engine = remaining[k]
          /\ Recorded(state, hist.outcomes[k])

\* C32 (as claimed): when every unit settles, the run ends after exactly
\* ceil(n/c) batches with every engine of the work list dispatched once and
\* its outcome recorded.
C32_TerminationAsClaimed == EndedAllSettled => AllBatchesDone

\* C32 (amended): when every unit settles and every save succeeds, the run
\* ends after exactly ceil(n/c) batches with every engine of the work list
\* dispatched once and its outcome recorded and saved; every batch is
\* non-empty and starts at an offset inside the work list, so the loop ends.
C32_TerminationAndCompleteness ==
    /\ (EndedAllSettled /\ ~hist.saveFailed) =>
          /\ AllBatchesDone
          /\ hist.batches > 0 => file = << state >>
    /\ hist.loaded # << >> =>
          /\ hist.batches <= Ceil(Len(remaining), opts.concurrency)
          /\ pc = "batch" => i < Len(remaining)
          /\ pc \in {"await", "save"} => batch # << >> /\ i = (hist.batches - 1) * opts.concurrency

\* a run of two batches ended although the unit of the first batch failed
C32_Witness ==
    /\ EndedAllSettled
    /\ ~hist.saveFailed
    /\ hist.batches = 2
    /\ hist.outcomes[1].status = "failed"
    /\ Len(hist.outcomes) = 2

\* C33 (as claimed): after a retry run the failure entry of every engine that
\* was not in the retry work list is still in the persisted state.
C33_RetrySupersedesOnlyRetried ==
    (LiveRunEnded /\ opts.retryFailedOnly /\ hist.stateWrites > 0) =>
        \A f \in Range(hist.loaded[1].failed) :
            f.engine \notin Range(remaining) => f \in Range(file[1].failed)

\* C34: after a fresh run that ended normally every candidate is in exactly
\* one of completed and failed, completed has no duplicate, and the two
\* lists together have as many entries as there are candidates.
C34_OutcomeAccounting ==
    (FreshRun /\ LiveRunEnded) =>
        /\ file = << state >>
        /\ \A e \in Range(filtered) :
              (e \in Range(state.completed)) # (e \in FailedNames(state))
        /\ Cardinality(Range(state.completed)) = Len(state.completed)
        /\ Len(state.completed) + Len(state.failed) = Len(filtered)

\* a fresh run over two candidates ended with one completed and one failed
C34_Witness ==
    /\ FreshRun
    /\ LiveRunEnded
    /\ Len(filtered) = 2
    /\ Len(state.completed) = 1
    /\ Len(state.failed) = 1

\* C35 (as claimed): in the final report succeeded plus failed is at most the
\* total, and the processed counter of the progress update is at most the total.
C35_ReportCountsConsistent ==
    /\ LiveRunEnded => hist.report.succeeded + hist.report.failed <= hist.report.total
    /\ hist.loaded # << >> /\ hist.batches > 0 => hist.processed <= Len(filtered)

\* C39 (as claimed): an import that ended in failure leaves on the target no
\* destination engine that this import created.
C39_FailedImportLeavesNoEngine ==
    (unit.pc # "none" /\ unit.outcome \in {"failed", "exited"}) =>
        ~(unit.created /\ DstName(opts, unit.engine) \in unit.target)

\* C37: createEngine makes at most five create calls, returns only after a
\* call answered without errors, throws otherwise once the fifth call has
\* failed, and reports a name taken at the fifth call as name still taken.
C37_BoundedCreateRetry ==
    imp.pc \in {"create", "returned", "threw"} =>
        /\ Len(imp.answers) <= 5
        /\ imp.pc = "create" => Len(imp.answers) < 5 /\ "ok" \notin Range(imp.answers)
        /\ imp.pc = "returned" =>
              /\ imp.answers[Len(imp.answers)] = "ok"
              /\ \A k \in 1..(Len(imp.answers) - 1) : imp.answers[k] # "ok"
        /\ imp.pc = "threw" =>
              /\ Len(imp.answers) = 5
              /\ "ok" \notin Range(imp.answers)
              /\ imp.answers[5] = "taken" <=> imp.error = NameTakenError

\* the name was still taken at the fifth call and createEngine threw
C37_Witness ==
    /\ imp.pc = "threw"
    /\ Len(imp.answers) = 5
    /\ imp.answers[5] = "taken"
    /\ imp.error = NameTakenError

\* C38 (as claimed): when deleteEngine returns after the deletion command was
\* accepted, a poll of the engine was answered not-found before the return.
C38_DeleteWaitsForAbsence ==
    (imp.pc = "returned" /\ imp.accepted) => imp.sawNotFound

RECURSIVE Flatten(_)
Flatten(chunks) ==
    IF chunks = << >> THEN << >> ELSE Head(chunks) \o Flatten(Tail(chunks))

\* C40: importSchema sends batches of at most 64 fields, every batch but the
\* last one full; the batches put end to end are the exported schema from its
\* first field on, in order and with the original types, and the whole schema
\* once importSchema has returned; a batch answered with an error is the last
\* one sent.
C40_SchemaBatching ==
    (imp.pc \in {"schema", "returned", "threw", "exited"}) =>
        /\ \A k \in 1..Len(imp.sent) :
              /\ Len(imp.sent[k]) >= 1
              /\ Len(imp.sent[k]) <= 64
              /\ k < Len(imp.sent) => Len(imp.sent[k]) = 64
        /\ Len(Flatten(imp.sent)) <= Len(imp.schema)
        /\ Flatten(imp.sent) = SubSeq(imp.schema, 1, Len(Flatten(imp.sent)))
        /\ imp.pc = "returned" => Flatten(imp.sent) = imp.schema
        /\ imp.refusedAt # 0 <=> imp.pc \in {"threw", "exited"}
        /\ imp.refusedAt # 0 => imp.refusedAt = Len(imp.sent)

\* a schema of more than two full batches was sent whole, in three calls
C40_Witness ==
    /\ imp.pc = "returned"
    /\ Len(imp.schema) = 130
    /\ Len(imp.sent) = 3
    /\ Len(imp.sent[3]) = 2

\* C36 (as claimed): whatever --concurrency was parsed to, a run that has
\* reached the batch loop ends.
C36_BatchLoopTerminates == (pc = "batch") ~> (pc = "exited")

====
